---------------------------- MODULE Spec2Model ----------------------------
(***************************************************************************)
(* A model of the e-commerce metrics repository: the data loader           *)
(* (src/data_loader.py) and the metric functions                           *)
(* (src/business_metrics.py).                                              *)
(*                                                                         *)
(* A DataFrame is a record [columns |-> set of column names,               *)
(* rows |-> sequence of records]; a missing cell (NaN / NaT / None) is     *)
(* an explicit value.  float64 values are exact rationals extended with    *)
(* nan, inf and -inf; rounding is not modelled.                            *)
(***************************************************************************)
EXTENDS Integers, Sequences, FiniteSets, TLC

VARIABLES
    files,        \* the CSV files under data_path: name -> DataFrame or Missing
    datasets,     \* EcommerceDataLoader.datasets: a dict name -> DataFrame
    sales_data,   \* the sales table the metric functions are given
    result,       \* the last call: its name, its arguments and what it returned
    app           \* the dashboard process: its cache entry and the page it shows

vars == <<files, datasets, sales_data, result, app>>

---------------------------------------------------------------------------
(* Bounds of the model. *)

MaxItemRows == 2
MaxOrderRows == 2
MaxSalesRows == 3
MaxLineItems == 2
MaxLookupRows == 2
MaxRenders == 3

---------------------------------------------------------------------------
(* Missing values and sequences. *)

NaN == "NaN"                     \* a missing string / id cell
None == "None"                   \* Python's None
Missing == [columns |-> {}, datetime |-> {}, rows |-> <<>>, missing |-> TRUE]
NoResult == [op |-> "none"]
NoApp == [cached |-> FALSE]

RECURSIVE Concat(_)
Concat(ss) == IF ss = <<>> THEN <<>> ELSE Head(ss) \o Concat(Tail(ss))

\* the sequences over S of length at most n
SeqsUpTo(S, n) == UNION {[1..k -> S] : k \in 0..n}

Range(s) == {s[i] : i \in 1..Len(s)}

---------------------------------------------------------------------------
(* Cells.  A timestamp cell of a CSV file is text; pd.to_datetime parses  *)
(* it to a timestamp or coerces it to NaT.  A numeric cell is a number    *)
(* (IntCell), missing (NaNInt) or, in a column pandas could not read as   *)
(* numbers, text.                                                         *)

NaT == [k |-> "NaT"]
NaNInt == [k |-> "nan"]
IntCell(v) == [k |-> "int", v |-> v]
Text(parts) == [k |-> "text", parts |-> parts]
Timestamp(y, m, d, h) == [k |-> "ts", year |-> y, month |-> m, day |-> d, hour |-> h]

\* pd.to_datetime(column, errors='coerce') on one cell: text of the form
\* year-month-day hour parses, any other text is coerced to NaT, and a cell
\* that is a timestamp already is kept.
to_datetime(cell) ==
    IF cell.k # "text" THEN cell
    ELSE IF /\ Len(cell.parts) = 4
            /\ cell.parts[2] \in 1..12
            /\ cell.parts[3] \in 1..31
            /\ cell.parts[4] \in 0..23
         THEN Timestamp(cell.parts[1], cell.parts[2], cell.parts[3], cell.parts[4])
         ELSE NaT

\* Series.dt.year and Series.dt.month on one cell of a datetime column
dt_year(ts) == IF ts.k = "ts" THEN IntCell(ts.year) ELSE NaNInt
dt_month(ts) == IF ts.k = "ts" THEN IntCell(ts.month) ELSE NaNInt

\* pd.to_numeric(column, errors='coerce') on one cell: text that is one number
\* parses to it, any other text is coerced to NaN, and a number is kept.
to_numeric(cell) ==
    IF cell.k # "text" THEN cell
    ELSE IF Len(cell.parts) = 1 THEN IntCell(cell.parts[1]) ELSE NaNInt

---------------------------------------------------------------------------
(* float64 values: an exact fraction n/d in lowest terms with d > 0, or   *)
(* nan, inf, -inf, with the arithmetic of IEEE 754 on them.               *)

RECURSIVE GCD(_, _)
GCD(a, b) == IF b = 0 THEN a ELSE GCD(b, a % b)

Abs(x) == IF x < 0 THEN -x ELSE x

Frac(n, d) ==
    LET g == GCD(Abs(n), Abs(d))
        sgn == IF d < 0 THEN -1 ELSE 1
    IN  [k |-> "num", n |-> sgn * (n \div g), d |-> sgn * (d \div g)]
Float(n) == [k |-> "num", n |-> n, d |-> 1]
FNaN == [k |-> "nan", n |-> 0, d |-> 1]
FInf == [k |-> "inf", n |-> 1, d |-> 1]
FNegInf == [k |-> "inf", n |-> -1, d |-> 1]

Sign(x) == IF x.n > 0 THEN 1 ELSE IF x.n < 0 THEN -1 ELSE 0
Signed(sgn) == IF sgn > 0 THEN FInf ELSE IF sgn < 0 THEN FNegInf ELSE FNaN

FAdd(x, y) ==
    IF x.k = "nan" \/ y.k = "nan" THEN FNaN
    ELSE IF x.k = "inf" /\ y.k = "inf" THEN (IF x = y THEN x ELSE FNaN)
    ELSE IF x.k = "inf" THEN x
    ELSE IF y.k = "inf" THEN y
    ELSE Frac(x.n * y.d + y.n * x.d, x.d * y.d)

FNeg(x) == [x EXCEPT !.n = -x.n]
FSub(x, y) == FAdd(x, FNeg(y))

FMul(x, y) ==
    IF x.k = "nan" \/ y.k = "nan" THEN FNaN
    ELSE IF x.k = "inf" \/ y.k = "inf" THEN Signed(Sign(x) * Sign(y))
    ELSE Frac(x.n * y.n, x.d * y.d)

FDiv(x, y) ==
    IF x.k = "nan" \/ y.k = "nan" THEN FNaN
    ELSE IF x.k = "inf" /\ y.k = "inf" THEN FNaN
    ELSE IF x.k = "inf" THEN (IF Sign(y) < 0 THEN FNeg(x) ELSE x)
    ELSE IF y.k = "inf" THEN Float(0)
    ELSE IF y.n = 0 THEN Signed(Sign(x))
    ELSE Frac(x.n * y.d, x.d * y.n)

\* x > 0, which is False for nan
FGt0(x) == x.k # "nan" /\ x.n > 0

---------------------------------------------------------------------------
(* DataFrames: the columns, those of datetime dtype, and the rows. *)

DataFrame(cols, dtcols, rows) ==
    [columns |-> cols, datetime |-> dtcols, rows |-> rows, missing |-> FALSE]

\* df[col] = f(row) for every row: a column is added or replaced
WithColumn(df, col, F(_), isdt) ==
    [df EXCEPT !.columns = @ \cup {col},
               !.datetime = IF isdt THEN @ \cup {col} ELSE @ \ {col},
               !.rows = [i \in 1..Len(df.rows) |->
                            [c \in DOMAIN df.rows[i] \cup {col} |->
                                IF c = col THEN F(df.rows[i]) ELSE df.rows[i][c]]]]

\* df[col] = f(df[col]) for each of the columns `cols` that exists
MapCells(df, cols, F(_), isdt) ==
    [df EXCEPT !.datetime = IF isdt THEN @ \cup (cols \cap df.columns) ELSE @,
               !.rows = [i \in 1..Len(df.rows) |->
                            [c \in DOMAIN df.rows[i] |->
                                IF c \in cols THEN F(df.rows[i][c]) ELSE df.rows[i][c]]]]

\* df[mask]: the rows for which the mask holds, in order
Where(df, P(_)) == [df EXCEPT !.rows = SelectSeq(df.rows, P)]

\* df[[cols]]: the projection on some columns (the caller checks they exist)
Project(df, cols) ==
    [df EXCEPT !.columns = cols, !.datetime = @ \cap cols,
               !.rows = [i \in 1..Len(df.rows) |-> [c \in cols |-> df.rows[i][c]]]]

---------------------------------------------------------------------------
(* The data loader: src/data_loader.py *)

FileNames == {"orders", "order_items", "products", "customers", "reviews", "payments"}

ItemCols == {"order_id", "product_id", "price"}
OrderCols == {"order_id", "customer_id", "order_status",
              "order_purchase_timestamp", "order_delivered_customer_date"}
ProductCols == {"product_id", "product_category_name"}
CustomerCols == {"customer_id", "customer_state"}
ReviewCols == {"order_id", "review_score"}

\* file_mappings, in the order load_raw_datasets goes through it
FileOrder == <<"orders", "order_items", "products", "customers", "reviews", "payments">>

\* what load_raw_datasets prints: for every file, in order, that it is loaded
\* or the warning that it is not found
load_raw_output(fs) ==
    [i \in 1..Len(FileOrder) |->
        [kind |-> IF fs[FileOrder[i]].missing THEN "warning" ELSE "loaded",
         file |-> FileOrder[i]]]

\* load_raw_datasets giving up, the dict as it was, when a file is absent
LoadRawDatasetsOrNothing(ds, fs) ==
    IF \E f \in FileNames : fs[f].missing THEN ds ELSE fs

\* load_raw_datasets: every file that exists is read into the dict; a missing
\* file is skipped and leaves the dict's entry, if any, as it was.
load_raw_datasets(ds, fs) ==
    [n \in DOMAIN ds \cup {f \in FileNames : ~fs[f].missing} |->
        IF ~fs[n].missing THEN fs[n] ELSE ds[n]]

\* _process_orders_data: the timestamp columns that exist are parsed, and the
\* year and the month of the purchase are derived.
OrderTimestampCols == {"order_purchase_timestamp", "order_approved_at",
                       "order_delivered_carrier_date",
                       "order_delivered_customer_date",
                       "order_estimated_delivery_date"}

process_orders_data(orders) ==
    LET parsed == MapCells(orders, OrderTimestampCols, to_datetime, TRUE)
    IN  IF "order_purchase_timestamp" \in parsed.columns
        THEN WithColumn(
                 WithColumn(parsed, "order_year",
                            LAMBDA r : dt_year(r.order_purchase_timestamp), FALSE),
                 "order_month",
                 LAMBDA r : dt_month(r.order_purchase_timestamp), FALSE)
        ELSE parsed

\* _process_order_items_data: the shipping limit date is parsed and the price
\* and the freight value are made numeric, each when the column exists;
\* total_value is added when both price and freight_value exist.
process_order_items_data(order_items) ==
    LET dated == MapCells(order_items, {"shipping_limit_date"}, to_datetime, TRUE)
        typed == MapCells(dated, {"price", "freight_value"}, to_numeric, FALSE)
    IN  IF {"price", "freight_value"} \subseteq typed.columns
        THEN WithColumn(typed, "total_value",
                        LAMBDA r : IF r.price.k = "int" /\ r.freight_value.k = "int"
                                   THEN IntCell(r.price.v + r.freight_value.v)
                                   ELSE NaNInt, FALSE)
        ELSE typed

\* _process_products_data: the numeric columns that exist are made numeric; the
\* volume is added when the three dimensions exist.
ProductNumericCols == {"product_name_length", "product_description_length",
                       "product_photos_qty", "product_weight_g",
                       "product_length_cm", "product_height_cm", "product_width_cm"}
ProductDimensionCols == {"product_length_cm", "product_height_cm", "product_width_cm"}

process_products_data(products) ==
    LET typed == MapCells(products, ProductNumericCols, to_numeric, FALSE)
    IN  IF ProductDimensionCols \subseteq typed.columns
        THEN WithColumn(typed, "product_volume_cm3",
                        LAMBDA r : IF /\ r.product_length_cm.k = "int"
                                      /\ r.product_height_cm.k = "int"
                                      /\ r.product_width_cm.k = "int"
                                   THEN IntCell(r.product_length_cm.v
                                                * r.product_height_cm.v
                                                * r.product_width_cm.v)
                                   ELSE NaNInt, FALSE)
        ELSE typed

\* _process_reviews_data: the timestamps that exist are parsed and the review
\* score is made numeric.
process_reviews_data(reviews) ==
    MapCells(MapCells(reviews, {"review_creation_date", "review_answer_timestamp"},
                      to_datetime, TRUE),
             {"review_score"}, to_numeric, FALSE)

\* clean_and_process_data: loads when the dict is empty, then processes the
\* tables that are present.
clean_and_process_data(ds, fs) ==
    LET loaded == IF DOMAIN ds = {} THEN load_raw_datasets(ds, fs) ELSE ds
    IN  [n \in DOMAIN loaded |->
            CASE n = "orders" -> process_orders_data(loaded[n])
              [] n = "order_items" -> process_order_items_data(loaded[n])
              [] n = "products" -> process_products_data(loaded[n])
              [] n = "reviews" -> process_reviews_data(loaded[n])
              [] OTHER -> loaded[n]]

\* pd.merge(left, right, on=key, how=...): for every left row, in order, one
\* row per right row with the same key, in the right table's order (a missing
\* key matches a missing key); a left row without a match is kept with missing
\* right cells by a left join and dropped by an inner join.
StringCols == {"order_id", "product_id", "customer_id", "order_status",
               "product_category_name", "customer_state"}

NullCell(df, col) ==
    IF col \in df.datetime THEN NaT ELSE IF col \in StringCols THEN NaN ELSE NaNInt

merge(left, right, key, how) ==
    LET nulls == [c \in right.columns \ {key} |-> NullCell(right, c)]
        matches(l) == SelectSeq(right.rows, LAMBDA r : r[key] = l[key])
        joined(l) == IF matches(l) = <<>>
                     THEN IF how = "left" THEN <<l @@ nulls>> ELSE <<>>
                     ELSE [j \in 1..Len(matches(l)) |-> l @@ matches(l)[j]]
    IN  [columns |-> left.columns \cup right.columns,
         datetime |-> left.datetime \cup right.datetime,
         rows |-> Concat([i \in 1..Len(left.rows) |-> joined(left.rows[i])]),
         missing |-> FALSE]

\* Python's truth value of the filter_status argument
Truthy(v) == v \notin {None, ""}

\* StatusFilter with the branch for include_cancelled lost: the requested
\* status alone is kept
StatusFilterRequestedOnly(sales, filter_status, include_cancelled) ==
    IF Truthy(filter_status)
    THEN Where(sales, LAMBDA r : r.order_status = filter_status)
    ELSE sales

\* create_sales_dataset, lines 240-248: the status filter
StatusFilter(sales, filter_status, include_cancelled) ==
    IF Truthy(filter_status) /\ ~include_cancelled
    THEN Where(sales, LAMBDA r : r.order_status = filter_status)
    ELSE IF Truthy(filter_status)
         THEN LET statuses == IF include_cancelled
                              THEN {filter_status, "cancelled"}
                              ELSE {filter_status}
              IN  Where(sales, LAMBDA r : r.order_status \in statuses)
         ELSE sales

SalesOrderCols == {"order_id", "order_status", "order_purchase_timestamp",
                   "order_delivered_customer_date", "order_year", "order_month"}

Raise(exc, ds) == [outcome |-> exc, value |-> Missing, datasets |-> ds]
Return(value, ds) == [outcome |-> "ok", value |-> value, datasets |-> ds]

\* create_sales_dataset: the order items left-joined with the orders, filtered
\* by status, with the year and the month of the purchase.  A missing table
\* or column raises KeyError; .dt on a column that is not datetime raises
\* AttributeError.
create_sales_dataset(ds0, fs, filter_status, include_cancelled) ==
    LET ds == IF DOMAIN ds0 = {} THEN clean_and_process_data(ds0, fs) ELSE ds0
    IN  IF "order_items" \notin DOMAIN ds THEN Raise("KeyError", ds)
        ELSE IF "orders" \in DOMAIN ds /\ ~(SalesOrderCols \subseteq ds["orders"].columns)
        THEN Raise("KeyError", ds)
        ELSE
          LET merged == IF "orders" \in DOMAIN ds
                        THEN merge(ds["order_items"],
                                   Project(ds["orders"], SalesOrderCols),
                                   "order_id", "left")
                        ELSE ds["order_items"]
          IN  IF Truthy(filter_status) /\ "order_status" \notin merged.columns
              THEN Raise("KeyError", ds)
              ELSE
                LET kept == StatusFilter(merged, filter_status, include_cancelled)
                IN  IF "order_purchase_timestamp" \notin kept.columns
                    THEN Return(kept, ds)
                    ELSE IF "order_purchase_timestamp" \notin kept.datetime
                    THEN Raise("AttributeError", ds)
                    ELSE Return(
                           WithColumn(
                             WithColumn(kept, "year",
                                 LAMBDA r : dt_year(r.order_purchase_timestamp), FALSE),
                             "month",
                             LAMBDA r : dt_month(r.order_purchase_timestamp), FALSE),
                           ds)

---------------------------------------------------------------------------
(* The metric functions: src/business_metrics.py *)

\* Series.sum(): the sum of the cells that are numbers (missing cells are
\* skipped), as a float
RECURSIVE SumCells(_)
SumCells(cells) ==
    IF cells = <<>> THEN 0
    ELSE (IF Head(cells).k = "int" THEN Head(cells).v ELSE 0) + SumCells(Tail(cells))

Column(rows, col) == [i \in 1..Len(rows) |-> rows[i][col]]
sum(rows, col) == Float(SumCells(Column(rows, col)))

\* Series.count(): the number of cells that are not missing
count(rows, col) == Len(SelectSeq(Column(rows, col), LAMBDA c : c.k = "int"))

\* Series.mean() of floats: missing values are skipped; nan when none is left
RECURSIVE FSum(_)
FSum(xs) == IF xs = <<>> THEN Float(0) ELSE FAdd(Head(xs), FSum(Tail(xs)))
mean(xs) ==
    LET present == SelectSeq(xs, LAMBDA x : x.k # "nan")
    IN  IF present = <<>> THEN FNaN ELSE FDiv(FSum(present), Float(Len(present)))

\* pd.isna on one cell of a column
IsNull(col, cell) == IF col \in StringCols THEN cell = NaN ELSE cell.k \in {"nan", "NaT"}

\* the keys of df.groupby(col): the values of the column, the missing one
\* dropped
GroupKeys(rows, col) ==
    {rows[i][col] : i \in {j \in 1..Len(rows) : ~IsNull(col, rows[j][col])}}
Group(rows, col, key) == SelectSeq(rows, LAMBDA r : r[col] = key)

\* a finite set of integers in ascending order
RECURSIVE Ascending(_)
Ascending(S) ==
    IF S = {} THEN <<>>
    ELSE LET m == CHOOSE x \in S : \A y \in S : x <= y
         IN  <<m>> \o Ascending(S \ {m})

\* a finite set as a sequence, in some order
RECURSIVE SetToSeq(_)
SetToSeq(S) ==
    IF S = {} THEN <<>>
    ELSE LET x == CHOOSE y \in S : TRUE IN <<x>> \o SetToSeq(S \ {x})

\* sales_data[sales_data[col] == period]
PeriodRows(df, col, period) == Where(df, LAMBDA r : r[col] = IntCell(period)).rows

\* calculate_revenue_metrics with the guard of line 36 turned into >= 0
RevenueMetricsDividingByZero(sales, col, current_period, comparison_period) ==
    LET current_revenue == sum(PeriodRows(sales, col, current_period), "price")
        comparison_revenue == sum(PeriodRows(sales, col, comparison_period), "price")
    IN  [current_revenue |-> current_revenue,
         comparison_revenue |-> comparison_revenue,
         revenue_growth_pct |->
             IF comparison_revenue.k # "nan" /\ comparison_revenue.n >= 0
             THEN FMul(FDiv(FSub(current_revenue, comparison_revenue),
                            comparison_revenue), Float(100))
             ELSE Float(0),
         current_period |-> current_period,
         comparison_period |-> comparison_period]

\* calculate_revenue_metrics
calculate_revenue_metrics(sales, col, current_period, comparison_period) ==
    LET current_revenue == sum(PeriodRows(sales, col, current_period), "price")
        comparison_revenue == sum(PeriodRows(sales, col, comparison_period), "price")
    IN  [current_revenue |-> current_revenue,
         comparison_revenue |-> comparison_revenue,
         revenue_growth_pct |->
             IF FGt0(comparison_revenue)
             THEN FMul(FDiv(FSub(current_revenue, comparison_revenue),
                            comparison_revenue), Float(100))
             ELSE Float(0),
         current_period |-> current_period,
         comparison_period |-> comparison_period]

\* Series.pct_change() on a series without missing values: each value divided
\* by the one before it, minus 1; the first entry has no value before it
pct_change(series) ==
    [i \in 1..Len(series) |->
        [index |-> series[i].index,
         value |-> IF i = 1 THEN FNaN
                   ELSE FSub(FDiv(series[i].value, series[i - 1].value), Float(1))]]

\* monthly_revenue with the months between the first and the last present
\* one filled with a revenue of zero
MonthlyRevenueZeroFilled(sales, target_year) ==
    LET yearly_data == PeriodRows(sales, "year", target_year)
        present == {m.v : m \in GroupKeys(yearly_data, "month")}
        months == Ascending({m \in 1..12 : \E a, b \in present : a <= m /\ m <= b})
    IN  [i \in 1..Len(months) |->
            [index |-> months[i],
             value |-> sum(Group(yearly_data, "month", IntCell(months[i])), "price")]]

\* calculate_monthly_growth_trend: the revenue per month of the target year,
\* by ascending month, and its month-over-month change
monthly_revenue(sales, target_year) ==
    LET yearly_data == PeriodRows(sales, "year", target_year)
        months == Ascending({m.v : m \in GroupKeys(yearly_data, "month")})
    IN  [i \in 1..Len(months) |->
            [index |-> months[i],
             value |-> sum(Group(yearly_data, "month", IntCell(months[i])), "price")]]

calculate_monthly_growth_trend(sales, target_year) ==
    pct_change(monthly_revenue(sales, target_year))

\* order_value_mean without the grouping: the mean price of the line items
LineItemPriceMean(rows) ==
    mean([i \in 1..Len(rows) |-> Float(rows[i].price.v)])

\* df.groupby('order_id')['price'].sum().mean()
order_value_mean(rows) ==
    LET orders == SetToSeq(GroupKeys(rows, "order_id"))
    IN  mean([i \in 1..Len(orders) |-> sum(Group(rows, "order_id", orders[i]), "price")])

\* calculate_average_order_value
calculate_average_order_value(sales, col, current_period, comparison_period) ==
    LET current_aov == order_value_mean(PeriodRows(sales, col, current_period))
        comparison_aov == order_value_mean(PeriodRows(sales, col, comparison_period))
    IN  [current_aov |-> current_aov,
         comparison_aov |-> comparison_aov,
         aov_growth_pct |->
             IF FGt0(comparison_aov)
             THEN FMul(FDiv(FSub(current_aov, comparison_aov), comparison_aov),
                       Float(100))
             ELSE Float(0)]

\* nunique counting every row
RowCount(rows, col) == Len(rows)

\* Series.nunique(): the number of distinct values, the missing one not counted
nunique(rows, col) == Cardinality(GroupKeys(rows, col))

\* calculate_order_metrics
calculate_order_metrics(sales, col, current_period, comparison_period) ==
    LET current_orders == nunique(PeriodRows(sales, col, current_period), "order_id")
        comparison_orders == nunique(PeriodRows(sales, col, comparison_period), "order_id")
    IN  [current_orders |-> current_orders,
         comparison_orders |-> comparison_orders,
         order_growth_pct |->
             IF comparison_orders > 0
             THEN FMul(FDiv(Float(current_orders - comparison_orders),
                            Float(comparison_orders)), Float(100))
             ELSE Float(0)]

\* x <= y on floats that are numbers
FLe(x, y) == x.n * y.d <= y.n * x.d

\* groupby(col)['price'].agg(['sum', 'count', 'mean']) renamed: one row per
\* key, with the sum, the number and the mean of the prices that are present
PerformanceByGroup(rows, col) ==
    {[index |-> key,
      total_revenue |-> sum(Group(rows, col, key), "price"),
      total_orders |-> count(Group(rows, col, key), "price"),
      avg_order_value |-> FDiv(sum(Group(rows, col, key), "price"),
                               Float(count(Group(rows, col, key), "price")))] :
        key \in GroupKeys(rows, col)}

\* sort_values with ascending=True
SortValuesAscending(groups) ==
    {s \in [1..Cardinality(groups) -> groups] :
        /\ \A i, j \in DOMAIN s : i # j => s[i] # s[j]
        /\ \A i \in DOMAIN s : i > 1 => FLe(s[i - 1].total_revenue, s[i].total_revenue)}

\* sort_values('total_revenue', ascending=False): the order the rows may come
\* out in; the order of rows with equal revenue is not specified
sort_values_descending(groups) ==
    {s \in [1..Cardinality(groups) -> groups] :
        /\ \A i, j \in DOMAIN s : i # j => s[i] # s[j]
        /\ \A i \in DOMAIN s : i > 1 => FLe(s[i].total_revenue, s[i - 1].total_revenue)}

\* calculate_product_category_performance: the results it may return
calculate_product_category_performance(sales, products, col, period) ==
    LET period_data == Where(sales, LAMBDA r : r[col] = IntCell(period))
        category_sales == merge(Project(products, {"product_id", "product_category_name"}),
                                Project(period_data, {"product_id", "price"}),
                                "product_id", "inner")
    IN  sort_values_descending(
            PerformanceByGroup(category_sales.rows, "product_category_name"))

\* calculate_geographic_performance: the results it may return
calculate_geographic_performance(sales, orders, customers, col, period) ==
    LET period_data == Where(sales, LAMBDA r : r[col] = IntCell(period))
        sales_customers == merge(Project(period_data, {"order_id", "price"}),
                                 Project(orders, {"order_id", "customer_id"}),
                                 "order_id", "inner")
        sales_states == merge(sales_customers,
                              Project(customers, {"customer_id", "customer_state"}),
                              "customer_id", "inner")
    IN  sort_values_descending(PerformanceByGroup(sales_states.rows, "customer_state"))

\* the days from 0001-01-01 to a date of the Gregorian calendar
DaysBeforeMonth == <<0, 31, 59, 90, 120, 151, 181, 212, 243, 273, 304, 334>>
IsLeap(y) == (y % 4 = 0 /\ y % 100 # 0) \/ y % 400 = 0
DayNumber(ts) ==
    LET y == ts.year - 1
    IN  365 * y + (y \div 4) - (y \div 100) + (y \div 400)
          + DaysBeforeMonth[ts.month]
          + (IF ts.month > 2 /\ IsLeap(ts.year) THEN 1 ELSE 0)
          + ts.day

\* (delivered - purchase).dt.days: the whole days of the difference, rounded
\* down; missing when either timestamp is
delivery_speed(delivered, purchase) ==
    IF delivered.k = "ts" /\ purchase.k = "ts"
    THEN IntCell(((DayNumber(delivered) * 24 + delivered.hour)
                    - (DayNumber(purchase) * 24 + purchase.hour)) \div 24)
    ELSE NaNInt

\* DataFrame.drop_duplicates(): the first of equal rows is kept
RECURSIVE drop_duplicates(_)
drop_duplicates(rows) ==
    IF rows = <<>> THEN <<>>
    ELSE LET front == drop_duplicates(SubSeq(rows, 1, Len(rows) - 1))
             last == rows[Len(rows)]
         IN  IF last \in Range(front) THEN front ELSE Append(front, last)

\* categorize_delivery_speed keeping the speeds out of range apart: a missing
\* speed and a speed below 1 are in no bucket
CategorizeInRangeOnly(days) ==
    IF days.k # "int" \/ days.v < 1 THEN "out of range"
    ELSE IF days.v <= 3 THEN "1-3 days"
    ELSE IF days.v <= 7 THEN "4-7 days"
    ELSE "8+ days"

\* categorize_delivery_speed with the boundaries exclusive
CategorizeExclusive(days) ==
    IF days.k = "int" /\ days.v < 3 THEN "1-3 days"
    ELSE IF days.k = "int" /\ days.v < 7 THEN "4-7 days"
    ELSE "8+ days"

\* categorize_delivery_speed; a comparison with a missing speed is False
categorize_delivery_speed(days) ==
    IF days.k = "int" /\ days.v <= 3 THEN "1-3 days"
    ELSE IF days.k = "int" /\ days.v <= 7 THEN "4-7 days"
    ELSE "8+ days"

\* calculate_customer_satisfaction_metrics, lines 225-262: the table the
\* averages are computed over, one row per distinct (order, speed, score),
\* with its delivery category
order_satisfaction(sales, reviews, col, period) ==
    LET period_data ==
            MapCells(Where(sales, LAMBDA r : r[col] = IntCell(period)),
                     {"order_delivered_customer_date"}, to_datetime, TRUE)
        with_speed ==
            WithColumn(period_data, "delivery_speed",
                       LAMBDA r : delivery_speed(r.order_delivered_customer_date,
                                                 r.order_purchase_timestamp), FALSE)
        satisfaction_data ==
            merge(with_speed, Project(reviews, {"order_id", "review_score"}),
                  "order_id", "inner")
        deduplicated ==
            drop_duplicates(
                Project(satisfaction_data,
                        {"order_id", "delivery_speed", "review_score"}).rows)
    IN  [i \in 1..Len(deduplicated) |->
            deduplicated[i]
              @@ [delivery_category |->
                      categorize_delivery_speed(deduplicated[i].delivery_speed)]]

\* Series.mean() of a numeric column
mean_of(rows, col) ==
    mean([i \in 1..Len(rows) |->
            IF rows[i][col].k = "int" THEN Float(rows[i][col].v) ELSE FNaN])

\* calculate_customer_satisfaction_metrics
calculate_customer_satisfaction_metrics(sales, reviews, col, period) ==
    LET table == order_satisfaction(sales, reviews, col, period)
        categories == {table[i].delivery_category : i \in 1..Len(table)}
    IN  [avg_review_score |-> mean_of(table, "review_score"),
         avg_delivery_time_days |-> mean_of(table, "delivery_speed"),
         satisfaction_by_delivery_speed |->
             [c \in categories |->
                 mean_of(SelectSeq(table, LAMBDA r : r.delivery_category = c),
                         "review_score")]]

\* pd.to_datetime(column) with the default errors='raise': text that is not
\* a timestamp raises; an empty cell is NaT
Unparseable(cell) ==
    cell.k = "text" /\ cell.parts # <<>> /\ to_datetime(cell) = NaT

\* Series.value_counts(normalize=True): for every value that is present, its
\* share of the cells that are not missing
value_counts(rows, col) ==
    [key \in GroupKeys(rows, col) |->
        Frac(Len(Group(rows, col, key)),
             Len(SelectSeq(rows, LAMBDA r : ~IsNull(col, r[col]))))]

\* calculate_order_status_distribution, lines 292-299, on the table the
\* year is written to: the outcome, the distribution and the table as written
order_status_distribution(orders_data_copy, period_col, period_value) ==
    IF ~({"order_purchase_timestamp", "order_status"} \subseteq orders_data_copy.columns)
    THEN [outcome |-> "KeyError", value |-> <<>>, written |-> orders_data_copy]
    ELSE IF \E i \in 1..Len(orders_data_copy.rows) :
                Unparseable(orders_data_copy.rows[i].order_purchase_timestamp)
    THEN [outcome |-> "ValueError", value |-> <<>>, written |-> orders_data_copy]
    ELSE LET written ==
                 WithColumn(orders_data_copy, period_col,
                            LAMBDA r : dt_year(to_datetime(r.order_purchase_timestamp)),
                            FALSE)
             period_orders ==
                 Where(written, LAMBDA r : r[period_col] = IntCell(period_value))
         IN  [outcome |-> "ok",
              value |-> value_counts(period_orders.rows, "order_status"),
              written |-> written]

\* calculate_order_status_distribution writing the year to the table it is
\* given instead of a copy
StatusDistributionInPlace(orders_data, period_col, period_value) ==
    LET r == order_status_distribution(orders_data, period_col, period_value)
    IN  [outcome |-> r.outcome, value |-> r.value, orders_data |-> r.written]

\* calculate_order_status_distribution: the year is written to a copy of the
\* table (line 291), the table it is given is left as it was
calculate_order_status_distribution(orders_data, period_col, period_value) ==
    LET orders_data_copy == orders_data
        r == order_status_distribution(orders_data_copy, period_col, period_value)
    IN  [outcome |-> r.outcome, value |-> r.value, orders_data |-> orders_data]

---------------------------------------------------------------------------
(* The loader as a state machine: the calls a client can make on one      *)
(* EcommerceDataLoader, in any order.                                     *)

\* The orders the CSV files of the model are about: when each was purchased
\* and delivered.  o1 took 3 days, o2 7 days and 23 hours, o3 (of 2022) 8 days,
\* o4 has no delivery date, o5 is delivered 2 hours before its purchase, o8
\* is delivered 10 hours after its purchase and o6 has a purchase timestamp
\* that does not parse.
PurchaseOf(o) ==
    CASE o = "o1" -> Timestamp(2023, 1, 5, 10)
      [] o = "o2" -> Timestamp(2023, 3, 5, 10)
      [] o = "o3" -> Timestamp(2022, 1, 5, 10)
      [] o = "o4" -> Timestamp(2023, 2, 5, 10)
      [] o = "o5" -> Timestamp(2023, 1, 20, 10)
      [] o = "o8" -> Timestamp(2023, 1, 25, 10)
      [] OTHER -> NaT
DeliveredOf(o) ==
    CASE o = "o1" -> Timestamp(2023, 1, 8, 10)
      [] o = "o2" -> Timestamp(2023, 3, 13, 9)
      [] o = "o3" -> Timestamp(2022, 1, 13, 10)
      [] o = "o5" -> Timestamp(2023, 1, 20, 8)
      [] o = "o8" -> Timestamp(2023, 1, 25, 20)
      [] OTHER -> NaT

\* the text of a timestamp in a CSV file; a missing one is an empty cell
TextOf(ts) ==
    IF ts.k = "ts" THEN Text(<<ts.year, ts.month, ts.day, ts.hour>>) ELSE Text(<<>>)

Statuses == {"delivered", "cancelled", "shipped"}
FilterStatuses == {None, "", "delivered", "cancelled", "shipped"}

ItemRowsOfLoader ==
    [order_id : {"o1", "o2", NaN}, product_id : {"p1"}, price : {IntCell(10)}]
OrderRowsOfLoader ==
    [order_id : {"o1"}, customer_id : {"c1"}, order_status : Statuses,
     order_purchase_timestamp : {TextOf(PurchaseOf("o1"))},
     order_delivered_customer_date : {TextOf(DeliveredOf("o1"))}]

EmptyFile(cols) == DataFrame(cols, {}, <<>>)

InitLoader ==
    /\ \E items \in SeqsUpTo(ItemRowsOfLoader, MaxItemRows),
          orders \in SeqsUpTo(OrderRowsOfLoader, MaxOrderRows) :
          files = [n \in FileNames |->
                     CASE n = "order_items" -> DataFrame(ItemCols, {}, items)
                       [] n = "orders" -> DataFrame(OrderCols, {}, orders)
                       [] n = "products" -> EmptyFile(ProductCols)
                       [] n = "customers" -> EmptyFile(CustomerCols)
                       [] n = "reviews" -> EmptyFile(ReviewCols)
                       [] OTHER -> EmptyFile({"order_id"})]
    /\ datasets = <<>>
    /\ sales_data = Missing
    /\ result = NoResult
    /\ app = NoApp

LoadRawDatasets ==
    /\ datasets' = load_raw_datasets(datasets, files)
    /\ result' = [op |-> "load_raw_datasets", outcome |-> "ok",
                  output |-> load_raw_output(files)]
    /\ UNCHANGED <<files, sales_data, app>>

CleanAndProcessData ==
    /\ datasets' = clean_and_process_data(datasets, files)
    /\ result' = [op |-> "clean_and_process_data", outcome |-> "ok"]
    /\ UNCHANGED <<files, sales_data, app>>

CreateSalesDataset ==
    \E filter_status \in FilterStatuses, include_cancelled \in BOOLEAN :
        LET r == create_sales_dataset(datasets, files, filter_status, include_cancelled)
        IN  /\ datasets' = r.datasets
            /\ sales_data' = IF r.outcome = "ok" THEN r.value ELSE sales_data
            /\ result' = [op |-> "create_sales_dataset",
                          filter_status |-> filter_status,
                          include_cancelled |-> include_cancelled,
                          outcome |-> r.outcome]
            /\ UNCHANGED <<files, app>>

NextLoader == LoadRawDatasets \/ CleanAndProcessData \/ CreateSalesDataset

SpecLoader == InitLoader /\ [][NextLoader]_vars

\* The loader over a data directory where any of the six files may be
\* absent: the same three methods, in any order.
ItemRowsOfPartial ==
    [order_id : {"o1"}, product_id : {"p1"}, price : {IntCell(10)}]
OrderRowsOfPartial ==
    [order_id : {"o1"}, customer_id : {"c1"}, order_status : {"delivered"},
     order_purchase_timestamp : {TextOf(PurchaseOf("o1"))},
     order_delivered_customer_date : {TextOf(DeliveredOf("o1"))}]

InitPartial ==
    /\ \E absent \in SUBSET FileNames,
          items \in SeqsUpTo(ItemRowsOfPartial, MaxItemRows),
          orders \in SeqsUpTo(OrderRowsOfPartial, MaxOrderRows) :
          files = [n \in FileNames |->
                     IF n \in absent THEN Missing
                     ELSE CASE n = "order_items" -> DataFrame(ItemCols, {}, items)
                            [] n = "orders" -> DataFrame(OrderCols, {}, orders)
                            [] n = "products" -> EmptyFile(ProductCols)
                            [] n = "customers" -> EmptyFile(CustomerCols)
                            [] n = "reviews" -> EmptyFile(ReviewCols)
                            [] OTHER -> EmptyFile({"order_id"})]
    /\ datasets = <<>>
    /\ sales_data = Missing
    /\ result = NoResult
    /\ app = NoApp

NextPartial == LoadRawDatasets \/ CleanAndProcessData \/ CreateSalesDataset

SpecPartial == InitPartial /\ [][NextPartial]_vars

---------------------------------------------------------------------------
(* The revenue, order and average-order-value metrics and the monthly     *)
(* trend as pure functions: one call of one function on a sales table     *)
(* such as create_sales_dataset returns, with any period arguments.       *)

SalesCols == ItemCols \cup SalesOrderCols \cup {"year", "month"}

\* the row of create_sales_dataset's result for an item of a delivered order
SalesRow(order_id, product_id, price) ==
    [order_id |-> order_id, product_id |-> product_id, price |-> IntCell(price),
     order_status |-> "delivered",
     order_purchase_timestamp |-> PurchaseOf(order_id),
     order_delivered_customer_date |-> DeliveredOf(order_id),
     order_year |-> dt_year(PurchaseOf(order_id)),
     order_month |-> dt_month(PurchaseOf(order_id)),
     year |-> dt_year(PurchaseOf(order_id)),
     month |-> dt_month(PurchaseOf(order_id))]

SalesTable(rows) == DataFrame(SalesCols, OrderTimestampCols \cap SalesCols, rows)

Prices == {-5, 0, 10}
Years == {2022, 2023}
Months == {1, 3}
PeriodArgs == [col : {"year"}, current : Years, comparison : Years]
                \cup [col : {"month"}, current : Months, comparison : Months]

SalesRowsOfMetrics ==
    {SalesRow(o, "p1", p) : o \in {"o1", "o2", "o3"}, p \in Prices}

NoFiles == [n \in FileNames |-> Missing]

InitMetrics ==
    /\ \E rows \in SeqsUpTo(SalesRowsOfMetrics, MaxSalesRows) :
          sales_data = SalesTable(rows)
    /\ files = NoFiles
    /\ datasets = <<>>
    /\ result = NoResult
    /\ app = NoApp

Call(op, args, value) == [op |-> op, args |-> args, outcome |-> "ok", value |-> value]

CalculateRevenueMetrics ==
    /\ result = NoResult
    /\ \E a \in PeriodArgs :
          result' = Call("calculate_revenue_metrics", a,
                         calculate_revenue_metrics(sales_data, a.col, a.current,
                                                   a.comparison))
    /\ UNCHANGED <<files, datasets, sales_data, app>>

CalculateAverageOrderValue ==
    /\ result = NoResult
    /\ \E a \in PeriodArgs :
          result' = Call("calculate_average_order_value", a,
                         calculate_average_order_value(sales_data, a.col, a.current,
                                                       a.comparison))
    /\ UNCHANGED <<files, datasets, sales_data, app>>

CalculateOrderMetrics ==
    /\ result = NoResult
    /\ \E a \in PeriodArgs :
          result' = Call("calculate_order_metrics", a,
                         calculate_order_metrics(sales_data, a.col, a.current,
                                                 a.comparison))
    /\ UNCHANGED <<files, datasets, sales_data, app>>

NextMetrics ==
    CalculateRevenueMetrics \/ CalculateAverageOrderValue \/ CalculateOrderMetrics

SpecMetrics == InitMetrics /\ [][NextMetrics]_vars

\* The monthly trend: one call on a sales table whose purchases fall in the
\* first three months of 2023 or in 2022, or have an unparseable timestamp.
SalesRowsOfTrend ==
    {SalesRow(o, "p1", p) : o \in {"o1", "o2", "o3", "o4", "o6"}, p \in Prices}

InitTrend ==
    /\ \E rows \in SeqsUpTo(SalesRowsOfTrend, MaxSalesRows) :
          sales_data = SalesTable(rows)
    /\ files = NoFiles
    /\ datasets = <<>>
    /\ result = NoResult
    /\ app = NoApp

CalculateMonthlyGrowthTrend ==
    /\ result = NoResult
    /\ \E target_year \in Years :
          result' = Call("calculate_monthly_growth_trend",
                         [target_year |-> target_year],
                         calculate_monthly_growth_trend(sales_data, target_year))
    /\ UNCHANGED <<files, datasets, sales_data, app>>

NextTrend == CalculateMonthlyGrowthTrend

SpecTrend == InitTrend /\ [][NextTrend]_vars

---------------------------------------------------------------------------
(* The category and the geographic performance as pure functions: one call *)
(* on a sales table and the lookup tables, which are as the CSV files hold *)
(* them: ids may repeat, be unknown to the lookup table, or be missing.    *)

\* a row of the cleaned orders table
OrderRow(order_id, customer_id, status) ==
    [order_id |-> order_id, customer_id |-> customer_id, order_status |-> status,
     order_purchase_timestamp |-> PurchaseOf(order_id),
     order_delivered_customer_date |-> DeliveredOf(order_id),
     order_year |-> dt_year(PurchaseOf(order_id)),
     order_month |-> dt_month(PurchaseOf(order_id))]

OrdersTable(rows) ==
    DataFrame(OrderCols \cup {"order_year", "order_month"},
              OrderTimestampCols \cap OrderCols, rows)

YearArgs == [col : {"year"}, period : Years]

SalesRowsOfCategory ==
    {SalesRow(o, p, v) : o \in {"o1", "o3"}, p \in {"p1", "p2"}, v \in {10, 20}}
ProductRows ==
    [product_id : {"p1", "p2"}, product_category_name : {"toys", "books", NaN}]

InitCategory ==
    /\ \E rows \in SeqsUpTo(SalesRowsOfCategory, MaxLineItems),
          products \in SeqsUpTo(ProductRows, MaxLookupRows) :
          /\ sales_data = SalesTable(rows)
          /\ datasets = [n \in {"products"} |-> DataFrame(ProductCols, {}, products)]
    /\ files = NoFiles
    /\ result = NoResult
    /\ app = NoApp

CalculateProductCategoryPerformance ==
    /\ result = NoResult
    /\ \E a \in YearArgs :
          \E value \in calculate_product_category_performance(
                           sales_data, datasets["products"], a.col, a.period) :
              result' = Call("calculate_product_category_performance", a, value)
    /\ UNCHANGED <<files, datasets, sales_data, app>>

NextCategory == CalculateProductCategoryPerformance

SpecCategory == InitCategory /\ [][NextCategory]_vars

SalesRowsOfGeographic ==
    {SalesRow(o, "p1", v) : o \in {"o1", "o3"}, v \in {10, 20}}
OrderRowsOfGeographic ==
    {OrderRow(o, c, "delivered") : o \in {"o1", "o3"}, c \in {"c1", "c2"}}
CustomerRows ==
    {[customer_id |-> "c1", customer_state |-> "SP"],
     [customer_id |-> "c1", customer_state |-> "RJ"],
     [customer_id |-> "c2", customer_state |-> "SP"]}

InitGeographic ==
    /\ \E rows \in SeqsUpTo(SalesRowsOfGeographic, MaxLineItems),
          orders \in SeqsUpTo(OrderRowsOfGeographic, MaxLookupRows),
          customers \in SeqsUpTo(CustomerRows, MaxLookupRows) :
          /\ sales_data = SalesTable(rows)
          /\ datasets = [n \in {"orders", "customers"} |->
                           IF n = "orders" THEN OrdersTable(orders)
                           ELSE DataFrame(CustomerCols, {}, customers)]
    /\ files = NoFiles
    /\ result = NoResult
    /\ app = NoApp

CalculateGeographicPerformance ==
    /\ result = NoResult
    /\ \E a \in YearArgs :
          \E value \in calculate_geographic_performance(
                           sales_data, datasets["orders"], datasets["customers"],
                           a.col, a.period) :
              result' = Call("calculate_geographic_performance", a, value)
    /\ UNCHANGED <<files, datasets, sales_data, app>>

NextGeographic == CalculateGeographicPerformance

SpecGeographic == InitGeographic /\ [][NextGeographic]_vars

\* The satisfaction metrics: one call on a sales table and a reviews table;
\* an order may have several line items, no review or several reviews.
SalesRowsOfSatisfaction ==
    {SalesRow(o, "p1", 10) : o \in {"o1", "o2", "o3", "o4", "o5", "o8"}}
ReviewRows ==
    [order_id : {"o1", "o2", "o3", "o4", "o5", "o8"},
     review_score : {IntCell(1), IntCell(5)}]

InitSatisfaction ==
    /\ \E rows \in SeqsUpTo(SalesRowsOfSatisfaction, MaxLineItems),
          reviews \in SeqsUpTo(ReviewRows, MaxLookupRows) :
          /\ sales_data = SalesTable(rows)
          /\ datasets = [n \in {"reviews"} |-> DataFrame(ReviewCols, {}, reviews)]
    /\ files = NoFiles
    /\ result = NoResult
    /\ app = NoApp

CalculateCustomerSatisfactionMetrics ==
    /\ result = NoResult
    /\ \E a \in YearArgs :
          result' = [op |-> "calculate_customer_satisfaction_metrics",
                     args |-> a,
                     outcome |-> "ok",
                     value |-> calculate_customer_satisfaction_metrics(
                                   sales_data, datasets["reviews"], a.col, a.period),
                     order_satisfaction |->
                         order_satisfaction(sales_data, datasets["reviews"],
                                            a.col, a.period)]
    /\ UNCHANGED <<files, datasets, sales_data, app>>

NextSatisfaction == CalculateCustomerSatisfactionMetrics

SpecSatisfaction == InitSatisfaction /\ [][NextSatisfaction]_vars

\* All the metric functions on one set of tables: one call of one function.
\* The orders table is as its file reads, or cleaned by the loader; order o7
\* has a purchase timestamp that is not a date.
RawOrderRow(order_id, customer_id, status) ==
    [order_id |-> order_id, customer_id |-> customer_id, order_status |-> status,
     order_purchase_timestamp |->
         IF order_id = "o7" THEN Text(<<2023, 13, 5, 10>>)
         ELSE TextOf(PurchaseOf(order_id)),
     order_delivered_customer_date |-> TextOf(DeliveredOf(order_id))]

SalesRowsOfFunctions == {SalesRow("o1", "p1", 10), SalesRow("o2", "p2", 20)}
OrderRowsOfFunctions ==
    {RawOrderRow("o1", "c1", "delivered"), RawOrderRow("o2", "c2", "delivered"),
     RawOrderRow("o4", "c1", "cancelled"), RawOrderRow("o7", "c1", "shipped")}
ProductsOfFunctions ==
    <<[product_id |-> "p1", product_category_name |-> "toys"],
      [product_id |-> "p2", product_category_name |-> "books"]>>
CustomersOfFunctions ==
    <<[customer_id |-> "c1", customer_state |-> "SP"],
      [customer_id |-> "c2", customer_state |-> "RJ"]>>
ReviewsOfFunctions == <<[order_id |-> "o1", review_score |-> IntCell(5)]>>
StatusArgs == [col : {"year", "month"}, period : Years]

InitFunctions ==
    /\ \E rows \in SeqsUpTo(SalesRowsOfFunctions, MaxLineItems),
          orders \in SeqsUpTo(OrderRowsOfFunctions, MaxOrderRows),
          cleaned \in BOOLEAN :
          /\ sales_data = SalesTable(rows)
          /\ datasets =
                [n \in {"orders", "products", "customers", "reviews"} |->
                    CASE n = "orders" ->
                           IF cleaned
                           THEN process_orders_data(DataFrame(OrderCols, {}, orders))
                           ELSE DataFrame(OrderCols, {}, orders)
                      [] n = "products" -> DataFrame(ProductCols, {}, ProductsOfFunctions)
                      [] n = "customers" -> DataFrame(CustomerCols, {}, CustomersOfFunctions)
                      [] OTHER -> DataFrame(ReviewCols, {}, ReviewsOfFunctions)]
    /\ files = NoFiles
    /\ result = NoResult
    /\ app = NoApp

CalculateOrderStatusDistribution ==
    /\ result = NoResult
    /\ \E a \in StatusArgs :
          LET r == calculate_order_status_distribution(datasets["orders"],
                                                       a.col, a.period)
          IN  /\ result' = [op |-> "calculate_order_status_distribution",
                            args |-> a, outcome |-> r.outcome, value |-> r.value]
              /\ datasets' = [datasets EXCEPT !["orders"] = r.orders_data]
    /\ UNCHANGED <<files, sales_data, app>>

NextFunctions ==
    \/ CalculateRevenueMetrics
    \/ CalculateMonthlyGrowthTrend
    \/ CalculateAverageOrderValue
    \/ CalculateOrderMetrics
    \/ CalculateProductCategoryPerformance
    \/ CalculateGeographicPerformance
    \/ CalculateCustomerSatisfactionMetrics
    \/ CalculateOrderStatusDistribution

SpecFunctions == InitFunctions /\ [][NextFunctions]_vars

---------------------------------------------------------------------------
(* The dashboard: src/app.py.  A render runs main() from its first line;  *)
(* the page is the sequence of the messages and metrics the render shows, *)
(* up to the exception, if any, that ends it.                             *)

ErrorMessage(text) == [kind |-> "error", text |-> text, args |-> <<>>]
Exception(exc) == [kind |-> "exception", text |-> exc, args |-> <<>>]
Metric(op, args) == [kind |-> "metric", text |-> op, args |-> args]

\* load_and_prepare_data: a new loader cleans and creates the sales dataset
\* with the default arguments; the summary it prints reads the purchase
\* timestamp and the year of the sales data
summary_of(r) ==
    IF r.outcome # "ok"
    THEN [outcome |-> r.outcome, sales_data |-> Missing, datasets |-> <<>>]
    ELSE IF ~({"order_purchase_timestamp", "year"} \subseteq r.value.columns)
    THEN [outcome |-> "KeyError", sales_data |-> Missing, datasets |-> <<>>]
    ELSE [outcome |-> "ok", sales_data |-> r.value, datasets |-> r.datasets]

load_and_prepare_data(fs) ==
    summary_of(create_sales_dataset(clean_and_process_data(<<>>, fs), fs,
                                    "delivered", FALSE))

\* the body of load_data: what it returns and the messages it shows, by the
\* outcome of load_and_prepare_data
try_except(r) ==
    IF r.outcome = "ok"
    THEN [value |-> [none |-> FALSE, sales_data |-> r.sales_data,
                     all_datasets |-> r.datasets],
          messages |-> <<>>]
    ELSE [value |-> [none |-> TRUE, sales_data |-> Missing, all_datasets |-> <<>>],
          messages |-> <<ErrorMessage("Error loading data")>>]

run_load_data(fs) == try_except(load_and_prepare_data(fs))

\* load_data without st.cache_data: the body runs at every call
LoadDataUncached(a, fs) ==
    [entry |-> run_load_data(fs), loads |-> a.loads + 1]

\* load_data under st.cache_data, a function without arguments: the first
\* call runs the body and stores what it returned and showed; every later
\* call returns the stored value and shows the stored messages again
load_data(a, fs) ==
    IF a.cached
    THEN [entry |-> a.cache, loads |-> a.loads]
    ELSE [entry |-> run_load_data(fs), loads |-> a.loads + 1]

\* sales_data['year'].unique(): the distinct years, a missing one included
available_years(sales) == {sales.rows[i].year : i \in 1..Len(sales.rows)}

\* [year for year in available_years if year != analysis_year]: a missing
\* year differs from every year, itself included
comparison_years(available, analysis_year) ==
    {year \in available : year.k # "int" \/ year # analysis_year}

\* st.selectbox: one of the options, None when there is none
NoSelection == [k |-> "none"]
selectbox(options) == IF options = {} THEN {NoSelection} ELSE options

\* st.multiselect of the months: "All Months", nothing, or January
MonthChoices == {[all |-> TRUE, months |-> {}], [all |-> FALSE, months |-> {}],
                 [all |-> FALSE, months |-> {1}]}

\* main, lines 198-203: the rows of the two years, then of the months selected
filtered_data(sales, analysis_year, comparison_year, selected_months) ==
    LET of_years == Where(sales, LAMBDA r : r.year \in {analysis_year, comparison_year})
    IN  IF selected_months.months # {} /\ ~selected_months.all
        THEN Where(of_years, LAMBDA r : r.month.k = "int"
                                         /\ r.month.v \in selected_months.months)
        ELSE of_years

\* main, lines 426-483: the satisfaction chart and the two cards; the stars
\* are int(round(avg_review_score)), which raises on nan
satisfaction_section(filtered, all_datasets, analysis_year) ==
    IF "reviews" \notin DOMAIN all_datasets THEN <<Exception("KeyError")>>
    ELSE LET avg == IF analysis_year.k = "int"
                    THEN calculate_customer_satisfaction_metrics(
                             filtered, all_datasets["reviews"], "year",
                             analysis_year.v).avg_review_score
                    ELSE FNaN
         IN  <<Metric("calculate_customer_satisfaction_metrics", <<analysis_year>>)>>
               \o (IF avg = FNaN THEN <<Exception("ValueError")>> ELSE <<>>)

\* main, lines 205-483, after the years are selected: the four KPI metrics,
\* then the category, the geographic and the satisfaction metrics, each read
\* from all_datasets by the name of its table
dashboard(value, analysis_year, comparison_year, selected_months) ==
    LET filtered == filtered_data(value.sales_data, analysis_year, comparison_year,
                                  selected_months)
        years == <<analysis_year, comparison_year>>
        kpis == <<Metric("calculate_revenue_metrics", years),
                  Metric("calculate_monthly_growth_trend", <<analysis_year>>),
                  Metric("calculate_average_order_value", years),
                  Metric("calculate_order_metrics", years)>>
    IN  IF "products" \notin DOMAIN value.all_datasets
        THEN kpis \o <<Exception("KeyError")>>
        ELSE IF ~({"orders", "customers"} \subseteq DOMAIN value.all_datasets)
        THEN kpis \o <<Metric("calculate_product_category_performance", <<analysis_year>>),
                       Exception("KeyError")>>
        ELSE kpis \o <<Metric("calculate_product_category_performance", <<analysis_year>>),
                       Metric("calculate_geographic_performance", <<analysis_year>>)>>
                  \o satisfaction_section(filtered, value.all_datasets, analysis_year)

\* main: the pages a render may show, by what the user selects
main(entry) ==
    IF entry.value.none
    THEN {entry.messages \o <<ErrorMessage("Failed to load data")>>}
    ELSE LET available == available_years(entry.value.sales_data)
         IN  {entry.messages \o
                (IF analysis_year = NoSelection \/ comparison_year = NoSelection
                 THEN <<ErrorMessage("Please ensure you have data for two years")>>
                 ELSE dashboard(entry.value, analysis_year, comparison_year,
                                selected_months)) :
                <<analysis_year, comparison_year, selected_months>> \in
                    {c \in selectbox(available)
                             \X (available \cup {NoSelection}) \X MonthChoices :
                        c[2] \in selectbox(comparison_years(available, c[1]))}}

\* The dashboard process over a data directory where any file may be absent.
ItemsOfApp ==
    <<[order_id |-> "o1", product_id |-> "p1", price |-> IntCell(10)],
      [order_id |-> "o3", product_id |-> "p2", price |-> IntCell(20)],
      [order_id |-> "o6", product_id |-> "p1", price |-> IntCell(10)]>>
OrderRowsOfApp ==
    {RawOrderRow("o1", "c1", "delivered"), RawOrderRow("o3", "c2", "delivered"),
     RawOrderRow("o6", "c1", "delivered")}

NewApp == [cached |-> FALSE, cache |-> [value |-> [none |-> TRUE], messages |-> <<>>],
           loads |-> 0, renders |-> 0, page |-> <<>>]

InitApp ==
    /\ \E absent \in SUBSET FileNames,
          orders \in SeqsUpTo(OrderRowsOfApp, MaxOrderRows) :
          files = [n \in FileNames |->
                     IF n \in absent THEN Missing
                     ELSE CASE n = "order_items" -> DataFrame(ItemCols, {}, ItemsOfApp)
                            [] n = "orders" -> DataFrame(OrderCols, {}, orders)
                            [] n = "products" -> DataFrame(ProductCols, {}, ProductsOfFunctions)
                            [] n = "customers" -> DataFrame(CustomerCols, {}, CustomersOfFunctions)
                            [] n = "reviews" -> DataFrame(ReviewCols, {}, ReviewsOfFunctions)
                            [] OTHER -> EmptyFile({"order_id"})]
    /\ datasets = <<>>
    /\ sales_data = Missing
    /\ result = NoResult
    /\ app = NewApp

\* one render of the page: main() runs to its end
Render ==
    /\ app.renders < MaxRenders
    /\ \E loaded \in {load_data(app, files)} :
          \E page \in main(loaded.entry) :
              app' = [cached |-> TRUE, cache |-> loaded.entry, loads |-> loaded.loads,
                      renders |-> app.renders + 1, page |-> page]
    /\ UNCHANGED <<files, datasets, sales_data, result>>

NextApp == Render

SpecApp == InitApp /\ [][NextApp]_vars

---------------------------------------------------------------------------
(* Claims about the loader, checked under SpecLoader. *)

\* the join create_sales_dataset filters: the order items of the dict, each
\* with its order's row
JoinedItems ==
    merge(datasets["order_items"], Project(datasets["orders"], SalesOrderCols),
          "order_id", "left")

Created == result.op = "create_sales_dataset" /\ result.outcome = "ok"

\* the rows create_sales_dataset returned, without the two columns it adds
ReturnedItems == Project(sales_data, JoinedItems.columns).rows

\* what the spec's inclusion predicate retains
RetainedByStatus(filter_status, include_cancelled) ==
    SelectSeq(JoinedItems.rows,
              LAMBDA r : \/ r.order_status = filter_status
                         \/ r.order_status = "cancelled" /\ include_cancelled)

\* C1 as stated: for every filter_status and include_cancelled, None and the
\* empty string included, an order-item row is returned iff its order's status
\* equals filter_status, or equals 'cancelled' and include_cancelled is true.
C1_RetainedIffStatusForEveryArgument ==
    Created =>
        ReturnedItems = RetainedByStatus(result.filter_status, result.include_cancelled)

\* C1 amended: for every filter_status that is neither None nor empty, an
\* order-item row is returned iff its order's status equals filter_status, or
\* equals 'cancelled' and include_cancelled is true; when filter_status is None
\* or empty no status filter is applied and every order-item row is returned.
C1_RetainedIffStatusWhenRequested ==
    Created =>
        IF Truthy(result.filter_status)
        THEN ReturnedItems
               = RetainedByStatus(result.filter_status, result.include_cancelled)
        ELSE ReturnedItems = JoinedItems.rows

\* C1 witness: a call with include_cancelled that returned a row of the
\* requested status and a cancelled one and dropped another row, and this
\* with a requested status other than 'cancelled'.
C1_Witness ==
    /\ Created
    /\ result.filter_status = "delivered"
    /\ result.include_cancelled
    /\ \E i, j \in 1..Len(sales_data.rows) :
          /\ sales_data.rows[i].order_status = "delivered"
          /\ sales_data.rows[j].order_status = "cancelled"
    /\ Len(sales_data.rows) < Len(JoinedItems.rows)

---------------------------------------------------------------------------
(* Claims about the revenue, order and AOV metrics, checked under         *)
(* SpecMetrics.                                                           *)

Called(op) == result.op = op /\ result.outcome = "ok"

\* the indices of the sales rows whose period column holds the period
RowsOfPeriod(col, period) ==
    {i \in 1..Len(sales_data.rows) :
        sales_data.rows[i][col].k = "int" /\ sales_data.rows[i][col].v = period}

\* the sum of price over a set of rows of the sales table
RECURSIVE PriceOver(_)
PriceOver(I) ==
    IF I = {} THEN 0
    ELSE LET i == CHOOSE j \in I : TRUE
         IN  (IF sales_data.rows[i].price.k = "int" THEN sales_data.rows[i].price.v ELSE 0)
               + PriceOver(I \ {i})

\* the distinct order ids of a set of rows of the sales table
OrderIdsOver(I) == {sales_data.rows[i].order_id : i \in I} \ {NaN}

\* C2: in calculate_revenue_metrics, calculate_order_metrics and
\* calculate_average_order_value, whenever the comparison-period value
\* (revenue, order count, AOV) is 0, the call returns and its growth
\* percentage is exactly 0 (not inf, not nan), for every current-period value.
C2_ZeroComparisonGivesZeroGrowth ==
    /\ result.op = "calculate_revenue_metrics"
         /\ PriceOver(RowsOfPeriod(result.args.col, result.args.comparison)) = 0
       => result.outcome = "ok" /\ result.value.revenue_growth_pct = Float(0)
    /\ result.op = "calculate_order_metrics"
         /\ OrderIdsOver(RowsOfPeriod(result.args.col, result.args.comparison)) = {}
       => result.outcome = "ok" /\ result.value.order_growth_pct = Float(0)
    /\ result.op = "calculate_average_order_value"
         /\ result.value.comparison_aov = Float(0)
       => result.outcome = "ok" /\ result.value.aov_growth_pct = Float(0)

\* C2 witness: a revenue call whose comparison period has rows that sum to 0
\* and whose current period has a revenue other than 0.
C2_Witness ==
    /\ Called("calculate_revenue_metrics")
    /\ RowsOfPeriod(result.args.col, result.args.comparison) # {}
    /\ PriceOver(RowsOfPeriod(result.args.col, result.args.comparison)) = 0
    /\ PriceOver(RowsOfPeriod(result.args.col, result.args.current)) # 0

\* C3 as stated: calculate_revenue_metrics returns, with each revenue the sum
\* of price over the rows of its period, the growth (current - comparison) /
\* comparison * 100 for every comparison revenue other than 0, positive or
\* negative, and 0 only when the comparison revenue is 0.
C3_GrowthForEveryNonZeroComparison ==
    Called("calculate_revenue_metrics") =>
        LET cur == PriceOver(RowsOfPeriod(result.args.col, result.args.current))
            cmp == PriceOver(RowsOfPeriod(result.args.col, result.args.comparison))
        IN  /\ result.value.current_revenue = Float(cur)
            /\ result.value.comparison_revenue = Float(cmp)
            /\ result.value.revenue_growth_pct
                 = IF cmp # 0 THEN Frac((cur - cmp) * 100, cmp) ELSE Float(0)

\* C4: calculate_average_order_value returns, for each period, the mean over
\* the distinct order ids of the period of the per-order summed price, that is
\* the summed price of the period divided by its number of distinct orders
\* (nan for a period without an order): an order with several line items
\* contributes one value.
C4_AovIsMeanOfOrderTotals ==
    Called("calculate_average_order_value") =>
        LET aov(period) ==
                LET I == RowsOfPeriod(result.args.col, period)
                IN  IF OrderIdsOver(I) = {} THEN FNaN
                    ELSE Frac(PriceOver(I), Cardinality(OrderIdsOver(I)))
        IN  /\ result.value.current_aov = aov(result.args.current)
            /\ result.value.comparison_aov = aov(result.args.comparison)

\* C4 witness: the current period holds an order with two line items and
\* another order, and the AOV is not the mean line-item price.
C4_Witness ==
    /\ Called("calculate_average_order_value")
    /\ LET I == RowsOfPeriod(result.args.col, result.args.current)
       IN  /\ Cardinality(I) = 3
           /\ Cardinality(OrderIdsOver(I)) = 2
           /\ PriceOver(I) # 0
           /\ result.value.current_aov # Frac(PriceOver(I), Cardinality(I))

\* C5: calculate_order_metrics returns as order count of each period the number
\* of distinct order ids among the rows of the period, not the number of rows.
C5_OrderCountIsDistinctOrderIds ==
    Called("calculate_order_metrics") =>
        /\ result.value.current_orders
             = Cardinality(OrderIdsOver(RowsOfPeriod(result.args.col, result.args.current)))
        /\ result.value.comparison_orders
             = Cardinality(OrderIdsOver(RowsOfPeriod(result.args.col,
                                                     result.args.comparison)))

\* C5 witness: the current period holds several rows, all of one order, and
\* the order count is 1.
C5_Witness ==
    /\ Called("calculate_order_metrics")
    /\ Cardinality(RowsOfPeriod(result.args.col, result.args.current)) >= 2
    /\ result.value.current_orders = 1

---------------------------------------------------------------------------
(* Claims about the monthly trend, checked under SpecTrend. *)

\* the months with at least one sales row in the year
MonthsPresent(year) ==
    {sales_data.rows[i].month.v : i \in RowsOfPeriod("year", year)}

\* the revenue of a month of a year
RevenueOfMonth(year, month) ==
    PriceOver({i \in RowsOfPeriod("year", year) : sales_data.rows[i].month.v = month})

\* C10: calculate_monthly_growth_trend returns one entry per month that has at
\* least one sales row in the target year, by ascending month; the first
\* entry is undefined (nan), and the entry of every later present month m is
\* (rev_m - rev_p) / rev_p in float arithmetic, p being the preceding present
\* month.
C10_TrendOverPresentMonths ==
    Called("calculate_monthly_growth_trend") =>
        LET year == result.args.target_year
            present == MonthsPresent(year)
            trend == result.value
        IN  /\ Len(trend) = Cardinality(present)
            /\ {trend[i].index : i \in 1..Len(trend)} = present
            /\ \A i \in 1..Len(trend) :
                  LET m == trend[i].index
                      before == {q \in present : q < m}
                  IN  IF before = {}
                      THEN i = 1 /\ trend[i].value = FNaN
                      ELSE LET p == CHOOSE q \in before : \A o \in before : o <= q
                           IN  trend[i].value
                                 = FDiv(Float(RevenueOfMonth(year, m)
                                                - RevenueOfMonth(year, p)),
                                        Float(RevenueOfMonth(year, p)))

\* C10 witness: the target year has rows in months 1 and 3 only, with a
\* revenue other than 0 in month 1, and the trend has two entries.
C10_Witness ==
    /\ Called("calculate_monthly_growth_trend")
    /\ MonthsPresent(result.args.target_year) = {1, 3}
    /\ RevenueOfMonth(result.args.target_year, 1) # 0
    /\ Len(result.value) = 2
    /\ result.value[2].value.k = "num"

---------------------------------------------------------------------------
(* Claims about the category performance, checked under SpecCategory, and *)
(* about the geographic performance, checked under SpecGeographic.        *)

\* the sum of total_revenue over the groups of a performance table
RECURSIVE TotalRevenue(_)
TotalRevenue(groups) ==
    IF groups = <<>> THEN 0
    ELSE Head(groups).total_revenue.n + TotalRevenue(Tail(groups))

\* C6 as stated: the sum of total_revenue over the groups returned by
\* calculate_product_category_performance equals the sum of price over the
\* sales rows of the period: no line item is lost and none is counted twice.
C6_CategoryRevenueIsPeriodRevenue ==
    Called("calculate_product_category_performance") =>
        TotalRevenue(result.value)
          = PriceOver(RowsOfPeriod(result.args.col, result.args.period))

\* the line items of the period the order and customer tables link to a state
ItemsOfState(state) ==
    {i \in RowsOfPeriod(result.args.col, result.args.period) :
        \E o \in Range(datasets["orders"].rows), c \in Range(datasets["customers"].rows) :
            /\ o.order_id = sales_data.rows[i].order_id
            /\ c.customer_id = o.customer_id
            /\ c.customer_state = state}

\* C7 as stated: in calculate_geographic_performance every line item of the
\* period is attributed to at most one state and counted once, also when the
\* order table holds several rows for its order id or the customer table
\* several rows for its customer id: each state's group counts each of its
\* items once, and no item is in the groups of two states.
C7_ItemCountedOnce ==
    Called("calculate_geographic_performance") =>
        /\ \A i \in 1..Len(result.value) :
              LET g == result.value[i]
              IN  /\ g.total_orders = Cardinality(ItemsOfState(g.index))
                  /\ g.total_revenue = Float(PriceOver(ItemsOfState(g.index)))
        /\ \A i, j \in 1..Len(result.value) :
              i # j => ItemsOfState(result.value[i].index)
                         \cap ItemsOfState(result.value[j].index) = {}

---------------------------------------------------------------------------
(* Claims about the satisfaction metrics, checked under SpecSatisfaction. *)

\* the orders of the period that have at least one review
ReviewedOrders ==
    {o \in OrderIdsOver(RowsOfPeriod(result.args.col, result.args.period)) :
        \E r \in Range(datasets["reviews"].rows) : r.order_id = o}

\* C8 as stated: every order of the period that has at least one review
\* contributes exactly one row to the table over which the average review
\* score and the average delivery time are computed, whatever its number of
\* line items and of review rows.
C8_OneRowPerReviewedOrder ==
    Called("calculate_customer_satisfaction_metrics") =>
        \A o \in ReviewedOrders :
            Cardinality({i \in 1..Len(result.order_satisfaction) :
                            result.order_satisfaction[i].order_id = o}) = 1

\* C9: the bucketing maps a speed of 1 to 3 days to '1-3 days', of 4 to 7 days
\* to '4-7 days' and of 8 or more days to '8+ days', the boundaries 3, 7 and 8
\* included, and the returned map has an entry for the bucket of every row.
C9_BucketBoundaries ==
    Called("calculate_customer_satisfaction_metrics") =>
        \A i \in 1..Len(result.order_satisfaction) :
            LET row == result.order_satisfaction[i]
                days == row.delivery_speed
            IN  /\ row.delivery_category
                     \in DOMAIN result.value.satisfaction_by_delivery_speed
                /\ days.k = "int" /\ days.v \in 1..3
                     => row.delivery_category = "1-3 days"
                /\ days.k = "int" /\ days.v \in 4..7
                     => row.delivery_category = "4-7 days"
                /\ days.k = "int" /\ days.v >= 8
                     => row.delivery_category = "8+ days"

\* C9 witness: a call whose table holds an order delivered in exactly 3 days,
\* in '1-3 days', and one delivered in exactly 7 days, in '4-7 days'.
C9_Witness ==
    /\ Called("calculate_customer_satisfaction_metrics")
    /\ \E i, j \in 1..Len(result.order_satisfaction) :
          /\ result.order_satisfaction[i].delivery_speed = IntCell(3)
          /\ result.order_satisfaction[i].delivery_category = "1-3 days"
          /\ result.order_satisfaction[j].delivery_speed = IntCell(7)
          /\ result.order_satisfaction[j].delivery_category = "4-7 days"

\* C9 witness of the third boundary: an order delivered in exactly 8 days is
\* in '8+ days'.
C9_EightDaysReached ==
    /\ Called("calculate_customer_satisfaction_metrics")
    /\ \E i \in 1..Len(result.order_satisfaction) :
          /\ result.order_satisfaction[i].delivery_speed = IntCell(8)
          /\ result.order_satisfaction[i].delivery_category = "8+ days"

---------------------------------------------------------------------------
(* Claims about a data directory with absent files, checked under         *)
(* SpecPartial.                                                           *)

\* C11 as stated, for create_sales_dataset: when the file of the order items
\* or of the orders is missing at load, every call of create_sales_dataset
\* ends in an error outcome and returns no table.
C11_MissingTableFailsClearly ==
    result.op = "create_sales_dataset"
      /\ (files["order_items"].missing \/ files["orders"].missing)
      => result.outcome # "ok"

\* C12: load_raw_datasets never raises because a file is missing: for every
\* subset of the six files that is absent it returns a mapping that holds
\* exactly the tables whose files are present, each as its file reads, and it
\* prints one warning per absent file and none for a present one.
C12_LoadSkipsAbsentFiles ==
    result.op = "load_raw_datasets" =>
        /\ result.outcome = "ok"
        /\ DOMAIN datasets = {f \in FileNames : ~files[f].missing}
        /\ \A f \in DOMAIN datasets : datasets[f] = files[f]
        /\ \A f \in FileNames :
              Cardinality({i \in 1..Len(result.output) :
                              result.output[i] = [kind |-> "warning", file |-> f]})
                = IF files[f].missing THEN 1 ELSE 0

\* C12 witness: a load with the orders and the products absent and the order
\* items present, after which the dict holds the order items.
C12_Witness ==
    /\ result.op = "load_raw_datasets"
    /\ files["orders"].missing /\ files["products"].missing
    /\ ~files["order_items"].missing
    /\ "order_items" \in DOMAIN datasets
    /\ "orders" \notin DOMAIN datasets

---------------------------------------------------------------------------
(* Further claims about the loader, checked under SpecLoader. *)

\* C13 as stated: every row of the table create_sales_dataset returns has a
\* non-null order id, for every content of the order-items and orders tables
\* and every filter_status and include_cancelled.
C13_OrderIdNeverNull ==
    Created => \A i \in 1..Len(sales_data.rows) : sales_data.rows[i].order_id # NaN

\* whether the order of an order item passes the status filter of the call
PassesFilter(item) ==
    \/ ~Truthy(result.filter_status)
    \/ \E o \in Range(datasets["orders"].rows) :
          /\ o.order_id = item.order_id
          /\ \/ o.order_status = result.filter_status
             \/ o.order_status = "cancelled" /\ result.include_cancelled

\* C14 as stated: the table create_sales_dataset returns holds exactly one row
\* per order item whose order passes the status filter: the join with the
\* orders never multiplies an order item and never drops a retained one.
C14_OneRowPerRetainedItem ==
    Created =>
        Len(sales_data.rows)
          = Cardinality({i \in 1..Len(datasets["order_items"].rows) :
                            PassesFilter(datasets["order_items"].rows[i])})

\* C20 as stated: with all six files present, create_sales_dataset returns a
\* table that carries the year and the month after any sequence of earlier
\* calls of load_raw_datasets and clean_and_process_data on the loader.
C20_SalesDatasetAfterAnyCalls ==
    result.op = "create_sales_dataset" /\ (\A f \in FileNames : ~files[f].missing)
      => /\ result.outcome = "ok"
         /\ {"year", "month"} \subseteq sales_data.columns

---------------------------------------------------------------------------
(* Claims about all the metric functions, checked under SpecFunctions. *)

\* C16: no metric function modifies a table it is given: over every call of
\* one of the eight functions the sales, orders, products, customers and
\* reviews tables keep their rows and their columns.
C16_TablesNotModified ==
    [][sales_data' = sales_data /\ datasets' = datasets]_vars

\* C16 witness: calculate_order_status_distribution has returned a
\* distribution of a period with orders, and the orders table it was given
\* does not have the column the function writes the year to.
C16_Witness ==
    /\ Called("calculate_order_status_distribution")
    /\ DOMAIN result.value # {}
    /\ result.args.col \notin datasets["orders"].columns

\* C17: the groups calculate_product_category_performance and
\* calculate_geographic_performance return are ordered by total_revenue
\* descending: of two consecutive rows the earlier has a total_revenue
\* greater than or equal to the later's.
C17_GroupsByRevenueDescending ==
    Called("calculate_product_category_performance")
      \/ Called("calculate_geographic_performance")
      => \A i \in 1..Len(result.value) :
            i > 1 => FLe(result.value[i].total_revenue,
                         result.value[i - 1].total_revenue)

\* C17 witness: a category result with two groups of different revenue.
C17_Witness ==
    /\ Called("calculate_product_category_performance")
    /\ Len(result.value) = 2
    /\ result.value[1].total_revenue # result.value[2].total_revenue

\* the orders of the table whose purchase timestamp is of the year
OrdersOfYear(year) ==
    {i \in 1..Len(datasets["orders"].rows) :
        to_datetime(datasets["orders"].rows[i].order_purchase_timestamp).k = "ts"
          /\ to_datetime(datasets["orders"].rows[i].order_purchase_timestamp).year = year}

\* C18 as stated: calculate_order_status_distribution returns, for each
\* status, the number of orders of the order table purchased in the year
\* period_value that have this status, divided by the number of such orders
\* with any status, whatever period_col is passed and for orders of every
\* status.
C18_StatusSharesOfPurchaseYear ==
    result.op = "calculate_order_status_distribution" =>
        /\ result.outcome = "ok"
        /\ LET I == OrdersOfYear(result.args.period)
               having(status) ==
                   {i \in I : datasets["orders"].rows[i].order_status = status}
           IN  /\ DOMAIN result.value
                    = {datasets["orders"].rows[i].order_status : i \in I}
               /\ \A status \in DOMAIN result.value :
                     result.value[status]
                       = Frac(Cardinality(having(status)), Cardinality(I))

---------------------------------------------------------------------------
(* Claims about the dashboard, checked under SpecApp. *)

\* C15: across any sequence of page renders in one process the load step is
\* executed at most once: the first render initialises the cache entry, every
\* later render receives that same entry without loading, and no render
\* invalidates or rewrites it.
C15_LoadedAtMostOnce ==
    [][/\ app'.loads <= 1
       /\ app'.cached
       /\ app.cached => app'.cache = app.cache /\ app'.loads = app.loads]_vars

\* C15 witness: a third render of a process whose load succeeded, with one
\* execution of the load step.
C15_Witness ==
    /\ app.renders = 3
    /\ app.loads = 1
    /\ ~app.cache.value.none

\* the elements of a kind on the page
ElementsOf(kind) == {i \in 1..Len(app.page) : app.page[i].kind = kind}

\* C19 as stated: when the initial load fails entirely, a page render shows
\* the user exactly one failure message and computes no metric.
C19_OneFailureMessage ==
    app.renders >= 1 /\ app.cache.value.none =>
        /\ Cardinality(ElementsOf("error") \cup ElementsOf("exception")) = 1
        /\ ElementsOf("metric") = {}

---------------------------------------------------------------------------
(* A further claim about the satisfaction metrics, checked under          *)
(* SpecSatisfaction.                                                      *)

\* the rows of the deduplicated table that are in a bucket
RowsOfBucket(bucket) ==
    {i \in 1..Len(result.order_satisfaction) :
        result.order_satisfaction[i].delivery_category = bucket}

\* the sum of the review scores of a set of rows of the deduplicated table
RECURSIVE ScoreOver(_)
ScoreOver(I) ==
    IF I = {} THEN 0
    ELSE LET i == CHOOSE j \in I : TRUE
         IN  result.order_satisfaction[i].review_score.v + ScoreOver(I \ {i})

\* C21: the bucketing assigns every deduplicated order to exactly one of the
\* three buckets and rejects no value: an order whose delivery speed is
\* missing is in '8+ days', an order with a speed of 0 or a negative speed is
\* in '1-3 days', and the mean review score of every bucket is taken over all
\* the rows of the bucket, those with a missing speed included.
C21_EverySpeedHasABucket ==
    Called("calculate_customer_satisfaction_metrics") =>
        /\ \A i \in 1..Len(result.order_satisfaction) :
              LET row == result.order_satisfaction[i]
              IN  /\ row.delivery_category \in {"1-3 days", "4-7 days", "8+ days"}
                  /\ row.delivery_speed.k # "int" => row.delivery_category = "8+ days"
                  /\ row.delivery_speed.k = "int" /\ row.delivery_speed.v <= 0
                       => row.delivery_category = "1-3 days"
        /\ DOMAIN result.value.satisfaction_by_delivery_speed
             = {b \in {"1-3 days", "4-7 days", "8+ days"} : RowsOfBucket(b) # {}}
        /\ \A b \in DOMAIN result.value.satisfaction_by_delivery_speed :
              result.value.satisfaction_by_delivery_speed[b]
                = Frac(ScoreOver(RowsOfBucket(b)), Cardinality(RowsOfBucket(b)))

\* C21 witness: the table holds an order without a delivery date, alone in
\* '8+ days' and its score the mean of that bucket, and an order delivered on
\* the day of its purchase, speed 0, in '1-3 days'.
C21_Witness ==
    /\ Called("calculate_customer_satisfaction_metrics")
    /\ \E i, j \in 1..Len(result.order_satisfaction) :
          /\ result.order_satisfaction[i].delivery_speed = NaNInt
          /\ RowsOfBucket("8+ days") = {i}
          /\ result.value.satisfaction_by_delivery_speed["8+ days"]
               = Float(result.order_satisfaction[i].review_score.v)
          /\ result.order_satisfaction[j].delivery_speed = IntCell(0)
          /\ result.order_satisfaction[j].delivery_category = "1-3 days"

\* C21, the negative speed reached: an order delivered before its purchase,
\* speed -1, is in '1-3 days'.
C21_NegativeSpeedReached ==
    /\ Called("calculate_customer_satisfaction_metrics")
    /\ \E i \in 1..Len(result.order_satisfaction) :
          /\ result.order_satisfaction[i].delivery_speed = IntCell(-1)
          /\ result.order_satisfaction[i].delivery_category = "1-3 days"

---------------------------------------------------------------------------
(* A further claim about the dashboard, checked under SpecApp. *)

\* the years that occur in the sales data of the cache entry
YearsOfData ==
    {year \in available_years(app.cache.value.sales_data) : year.k = "int"}

\* the pairs <<analysis year, comparison year>> the metric functions of the
\* page were called with
YearsOfMetrics ==
    {app.page[i].args : i \in {j \in ElementsOf("metric") : Len(app.page[j].args) = 2}}

\* C22 as stated: in every page render that reaches the metric computations
\* the analysis year and the comparison year are two different years that both
\* occur in the sales data; when the data holds fewer than two distinct years
\* the render shows an error and calls no metric function.
C22_TwoDifferentYearsOfTheData ==
    app.renders >= 1 /\ ~app.cache.value.none =>
        /\ \A years \in YearsOfMetrics :
              /\ years[1] \in YearsOfData
              /\ years[2] \in YearsOfData
              /\ years[1] # years[2]
        /\ Cardinality(YearsOfData) < 2 =>
              /\ ElementsOf("error") # {}
              /\ ElementsOf("metric") = {}

\* C22 where no row of the sales data has a missing year: the statement holds
\* of these renders.
C22_WithEveryYearKnown ==
    /\ app.renders >= 1
    /\ ~app.cache.value.none
    /\ NaNInt \notin available_years(app.cache.value.sales_data)
    => C22_TwoDifferentYearsOfTheData

\* C22, the renders reached: metrics called with a missing comparison year on
\* data of one year, and metrics called with two years of the data.
C22_MissingYearCompared ==
    /\ app.renders >= 1
    /\ ~app.cache.value.none
    /\ YearsOfData = {IntCell(2023)}
    /\ <<IntCell(2023), NaNInt>> \in YearsOfMetrics
    /\ ElementsOf("error") = {}

C22_TwoYearsCompared ==
    /\ app.renders >= 1
    /\ ~app.cache.value.none
    /\ <<IntCell(2023), IntCell(2022)>> \in YearsOfMetrics

===========================================================================
